---------------------------- MODULE Spec2Model ----------------------------
(***************************************************************************)
(* Model of the calendar MCP server: the response slimmer (_slim_response), *)
(* the shared client handle (get_client), and the tool invocations of       *)
(* tools/events.py, tools/calendars.py and tools/freebusy.py.               *)
(*                                                                          *)
(* A Response Document is a tagged value:                                   *)
(*   [t |-> "null"], [t |-> "str", v |-> s], [t |-> "num", v |-> n],        *)
(*   [t |-> "bool", v |-> b], [t |-> "list", v |-> <<doc, ...>>],           *)
(*   [t |-> "dt", v |-> s]  (a datetime object, s its str() form),          *)
(*   [t |-> "map", v |-> << [k |-> key, v |-> doc], ... >>]                 *)
(* A mapping is the sequence of its entries in insertion order (a Python    *)
(* dict keeps insertion order); its keys are pairwise distinct.             *)
(***************************************************************************)
EXTENDS Integers, Sequences, FiniteSets, TLC

VARIABLES
    doc,          \* SpecSlim: the document handed to _slim_response
    out,          \* SpecSlim: _slim_response(doc), once computed
    out2,         \* SpecSlim: _slim_response(out), once computed
    spc,          \* SpecSlim: "in" | "slimmed" | "twice", or "raised"
    _client,      \* server.py 17: the shared handle, 0 for None, else the
                  \* number of the GCalClient object it refers to
    constructed,  \* how many GCalClient objects have been constructed
    failures,     \* how many GCalClient() calls have raised
    builtBy,      \* number of the invocation that constructed object 1, or 0
    invocations,  \* how many tool invocations have been dispatched
    inv,          \* per thread of control, its current invocation
    seen          \* SpecPair: a finished invocation kept to compare a later
                  \* one with, or NoneSeen

slimVars == <<doc, out, out2, spc>>

toolVars == <<_client, constructed, failures, builtBy, invocations, inv>>

vars == <<slimVars, toolVars, seen>>

-----------------------------------------------------------------------------
(* Document constructors *)

Null == [t |-> "null"]

Str(s) == [t |-> "str", v |-> s]

Num(n) == [t |-> "num", v |-> n]

Bool(b) == [t |-> "bool", v |-> b]

Dt(s) == [t |-> "dt", v |-> s]

List(s) == [t |-> "list", v |-> s]

Map(ps) == [t |-> "map", v |-> ps]

Pair(key, value) == [k |-> key, v |-> value]

KeysOf(m) == {m.v[i].k : i \in 1..Len(m.v)}

\* dict lookup m[key], for a key the mapping has
Get(m, key) == m.v[CHOOSE i \in 1..Len(m.v) : m.v[i].k = key].v

-----------------------------------------------------------------------------
(* Python's == on the values the slimmer compares (server.py 81, 94, 98):   *)
(* bool is a subclass of int, so True == 1 and False == 0; dict equality    *)
(* ignores insertion order; values of different kinds are unequal.          *)

PyNumeric(d) == d.t \in {"num", "bool"}

PyNum(d) == IF d.t = "bool" THEN (IF d.v THEN 1 ELSE 0) ELSE d.v

RECURSIVE PyEq(_, _)
PyEq(a, b) ==
    IF PyNumeric(a) /\ PyNumeric(b) THEN PyNum(a) = PyNum(b)
    ELSE IF a.t # b.t THEN FALSE
    ELSE IF a.t = "null" THEN TRUE
    ELSE IF a.t \in {"str", "dt"} THEN a.v = b.v
    ELSE IF a.t = "list"
         THEN /\ Len(a.v) = Len(b.v)
              /\ \A i \in 1..Len(a.v) : PyEq(a.v[i], b.v[i])
    ELSE /\ Len(a.v) = Len(b.v)
         /\ \A i \in 1..Len(a.v) :
               \E j \in 1..Len(b.v) :
                  b.v[j].k = a.v[i].k /\ PyEq(a.v[i].v, b.v[j].v)

-----------------------------------------------------------------------------
(* Response slimming: server.py 58-110 *)

_ALWAYS_STRIP_KEYS_etag_only == {"etag"}

_ALWAYS_STRIP_KEYS == {"etag", "kind"}

\* Stripped, recognising only the wire name useDefault of the default sentinel.
Stripped_wire_name_only(key, value) ==
    \/ value.t = "null"
    \/ PyEq(value, Str("")) \/ PyEq(value, List(<<>>))
    \/ key \in _ALWAYS_STRIP_KEYS
    \/ key = "iCalUID"
    \/ /\ key = "reminders" /\ value.t = "map"
       /\ PyEq(value, Map(<<Pair("useDefault", Bool(TRUE))>>))
    \/ key = "sequence" /\ PyEq(value, Num(0))
    \/ key = "colorId" /\ value.t = "null"

\* Stripped, dropping colorId whatever its value.
Stripped_colorId_always(key, value) ==
    \/ value.t = "null"
    \/ PyEq(value, Str("")) \/ PyEq(value, List(<<>>))
    \/ key \in _ALWAYS_STRIP_KEYS
    \/ key = "iCalUID"
    \/ /\ key = "reminders" /\ value.t = "map"
       /\ \/ PyEq(value, Map(<<Pair("useDefault", Bool(TRUE))>>))
          \/ PyEq(value, Map(<<Pair("use_default", Bool(TRUE))>>))
    \/ key = "sequence" /\ PyEq(value, Num(0))
    \/ key = "colorId"

\* The chain of `continue` tests of the loop body (server.py 76-103): TRUE
\* when the entry (key, value) is skipped, tested on the value as received.
Stripped(key, value) ==
    \/ value.t = "null"
    \/ PyEq(value, Str("")) \/ PyEq(value, List(<<>>))
    \/ key \in _ALWAYS_STRIP_KEYS
    \/ key = "iCalUID"
    \/ /\ key = "reminders" /\ value.t = "map"
       /\ \/ PyEq(value, Map(<<Pair("useDefault", Bool(TRUE))>>))
          \/ PyEq(value, Map(<<Pair("use_default", Bool(TRUE))>>))
    \/ key = "sequence" /\ PyEq(value, Num(0))
    \/ key = "colorId" /\ value.t = "null"

RECURSIVE _slim_response(_)
\* _slim_response leaving the None elements out of a sequence.
_slim_response_dropping_null_items(data) ==
    IF data.t = "list"
    THEN LET kept == SelectSeq(data.v, LAMBDA e : e.t # "null")
         IN  List([i \in 1..Len(kept) |-> _slim_response(kept[i])])
    ELSE IF data.t # "map" THEN data
    ELSE LET result[n \in 0..Len(data.v)] ==
                 IF n = 0 THEN <<>>
                 ELSE IF Stripped(data.v[n].k, data.v[n].v) THEN result[n - 1]
                 ELSE Append(result[n - 1],
                             Pair(data.v[n].k, _slim_response(data.v[n].v)))
         IN  Map(result[Len(data.v)])

\* _slim_response leaving out an entry whose slimmed value is an empty mapping.
_slim_response_omitting_emptied(data) ==
    IF data.t = "list"
    THEN List([i \in 1..Len(data.v) |-> _slim_response(data.v[i])])
    ELSE IF data.t # "map" THEN data
    ELSE LET result[n \in 0..Len(data.v)] ==
                 IF n = 0 THEN <<>>
                 ELSE IF Stripped(data.v[n].k, data.v[n].v) THEN result[n - 1]
                 ELSE IF _slim_response(data.v[n].v) = Map(<<>>) THEN result[n - 1]
                 ELSE Append(result[n - 1],
                             Pair(data.v[n].k, _slim_response(data.v[n].v)))
         IN  Map(result[Len(data.v)])

\* _slim_response without the element-wise pass over sequences.
_slim_response_skipping_lists(data) ==
    IF data.t # "map" THEN data
    ELSE LET result[n \in 0..Len(data.v)] ==
                 IF n = 0 THEN <<>>
                 ELSE IF Stripped(data.v[n].k, data.v[n].v) THEN result[n - 1]
                 ELSE Append(result[n - 1],
                             Pair(data.v[n].k, _slim_response(data.v[n].v)))
         IN  Map(result[Len(data.v)])

_slim_response(data) ==
    IF data.t = "list"
    THEN List([i \in 1..Len(data.v) |-> _slim_response(data.v[i])])
    ELSE IF data.t # "map" THEN data
    ELSE LET result[n \in 0..Len(data.v)] ==
                 IF n = 0 THEN <<>>
                 ELSE IF Stripped(data.v[n].k, data.v[n].v) THEN result[n - 1]
                 ELSE Append(result[n - 1],
                             Pair(data.v[n].k, _slim_response(data.v[n].v)))
         IN  Map(result[Len(data.v)])

-----------------------------------------------------------------------------
(* The documents the slimmer is run on *)

MaxNodes == 3

Scalars == {Null, Str(""), Str("x"), Num(0), Num(3), Bool(TRUE), Bool(FALSE)}

KeySeq == <<"id", "etag", "kind", "iCalUID", "reminders", "sequence",
            "colorId", "useDefault", "use_default">>

Leaves == Scalars \cup {List(<<>>), Map(<<>>)}

\* Number of nodes of a document: a scalar, a sequence or a mapping is one.
RECURSIVE Size(_)
Size(d) ==
    IF d.t \in {"list", "map"}
    THEN LET n[i \in 0..Len(d.v)] ==
                 IF i = 0 THEN 1
                 ELSE n[i - 1] + Size(IF d.t = "list" THEN d.v[i] ELSE d.v[i].v)
         IN  n[Len(d.v)]
    ELSE 1

KeyIdx(key) ==
    IF \E i \in 1..Len(KeySeq) : KeySeq[i] = key
    THEN CHOOSE i \in 1..Len(KeySeq) : KeySeq[i] = key
    ELSE 0

\* Reminder settings as the provider returns them: default-only, and custom
\* with an overrides list (tests/test_slim_response.py 68-90).
Override == Map(<<Pair("method", Str("popup")), Pair("minutes", Num(10))>>)

NoisyOverride == Map(<<Pair("method", Str("email")), Pair("minutes", Num(0)),
                       Pair("etag", Str("x"))>>)

OverrideLists == {<<>>, <<Override>>, <<NoisyOverride>>, <<Override, NoisyOverride>>,
                  <<Override, Override>>}

ReminderDocs ==
    {Map(<<Pair("id", Str("event-1")),
           Pair("reminders", Map(<<Pair(u, Bool(b)), Pair("overrides", List(l))>>))>>) :
        u \in {"useDefault", "use_default"}, b \in BOOLEAN, l \in OverrideLists}
    \cup
    {Map(<<Pair("reminders", Map(<<Pair(u, v)>>)), Pair("summary", Str("Test"))>>) :
        u \in {"useDefault", "use_default"},
        v \in {Bool(TRUE), Bool(FALSE), Num(1), Num(0), Str("true")}}

\* tests/test_slim_response.py 149-169
RealisticEvent ==
    Map(<<Pair("id", Str("abc123")), Pair("etag", Str("3456789")),
          Pair("kind", Str("calendar#event")), Pair("summary", Str("Team Standup")),
          Pair("location", Null),
          Pair("start", Map(<<Pair("dateTime", Str("2024-06-15T09:00:00-06:00")),
                              Pair("timeZone", Str("America/Denver"))>>)),
          Pair("creator", Map(<<Pair("email", Str("user@example.com"))>>)),
          Pair("iCalUID", Str("abc123@google.com")), Pair("sequence", Num(0)),
          Pair("reminders", Map(<<Pair("useDefault", Bool(TRUE))>>)),
          Pair("attendees", List(<<>>)), Pair("colorId", Null)>>)

SeedDocs == Leaves \cup ReminderDocs \cup {RealisticEvent, List(<<RealisticEvent>>)}

-----------------------------------------------------------------------------
(* Helpers of the tools: server.py 36-50, tools/events.py 14-24 *)

\* The outcome of a call that returns val or raises an exception of class
\* cls with str() text msg.
Returned(val) == [ok |-> TRUE, val |-> val, cls |-> "", msg |-> ""]

Raised(cls, msg) == [ok |-> FALSE, val |-> Null, cls |-> cls, msg |-> msg]

\* json.loads on the texts the tools are called with: the decoded value, or
\* the text of the JSONDecodeError.
JsonTexts == {"[\"primary\"]", "{\"summary\": \"Sync\"}", "{bad json["}

loads(text) ==
    CASE text = "[\"primary\"]" -> Returned(List(<<Str("primary")>>))
      [] text = "{\"summary\": \"Sync\"}" ->
           Returned(Map(<<Pair("summary", Str("Sync"))>>))
      [] OTHER ->
           Raised("JSONDecodeError",
                  "Expecting property name enclosed in double quotes: line 1 column 2 (char 1)")

\* f"Invalid JSON: {exc}", in place of the text of line 45
InvalidJsonMessage_without_name(name) ==
    "Invalid JSON: Expecting property name enclosed in double quotes: line 1 column 2 (char 1)"

\* f"Invalid JSON for parameter '{name}': {exc}" for the one decode error above
InvalidJsonMessage(name) ==
    CASE name = "attendees" ->
           "Invalid JSON for parameter 'attendees': Expecting property name enclosed in double quotes: line 1 column 2 (char 1)"
      [] name = "body" ->
           "Invalid JSON for parameter 'body': Expecting property name enclosed in double quotes: line 1 column 2 (char 1)"
      [] OTHER ->
           "Invalid JSON for parameter 'calendar_ids': Expecting property name enclosed in double quotes: line 1 column 2 (char 1)"

\* _parse_json without the json.loads of line 43: a text is returned as it is
_parse_json_text_undecoded(value, name) ==
    IF value.t = "null" THEN Returned(Null)
    ELSE Returned(value)

_parse_json(value, name) ==
    IF value.t = "null" THEN Returned(Null)
    ELSE IF value.t \in {"map", "list"} THEN Returned(value)
    ELSE IF loads(value.v).ok THEN loads(value.v)
    ELSE Raised("ValueError", InvalidJsonMessage(name))

\* An instant: the wall-clock text and the UTC offset ("" when naive).
Instant(wall, tz) == [wall |-> wall, tz |-> tz]

NoInstant == Instant("", "")

\* datetime.fromisoformat on the texts the tools are called with: a text
\* that is not of the ISO form is quoted in the ValueError, one of the ISO
\* form with a field out of range is rejected by the datetime constructor,
\* whose ValueError names the field; the "Z"
\* designator is read as UTC (tests/test_events.py 72-86 pass "Z" texts and
\* receive instants with tzinfo=timezone.utc).
fromisoformat(text) ==
    CASE text = "2024-06-15T10:00:00" -> Returned(Instant("2024-06-15T10:00:00", ""))
      [] text = "2024-06-15T10:00:00Z" ->
           Returned(Instant("2024-06-15T10:00:00", "+00:00"))
      [] text = "2024-06-15T10:00:00-06:00" ->
           Returned(Instant("2024-06-15T10:00:00", "-06:00"))
      [] text = "2024-13-01T10:00:00" -> Raised("ValueError", "month must be in 1..12")
      [] OTHER -> Raised("ValueError", "Invalid isoformat string: 'soon'")

\* dt.astimezone(timezone.utc) in place of dt.replace(tzinfo=timezone.utc),
\* on a host whose local zone is -06:00: the naive text is read as local time
_parse_datetime_as_local_time(value) ==
    IF value.t = "null" THEN Returned(NoInstant)
    ELSE LET dt == fromisoformat(value.v) IN
         IF ~dt.ok THEN dt
         ELSE IF dt.val.tz = "" THEN Returned(Instant(dt.val.wall, "-06:00"))
         ELSE dt

_parse_datetime(value) ==
    IF value.t = "null" THEN Returned(NoInstant)
    ELSE LET dt == fromisoformat(value.v) IN
         IF ~dt.ok THEN dt
         ELSE IF dt.val.tz = "" THEN Returned(Instant(dt.val.wall, "+00:00"))
         ELSE dt

\* tools/freebusy.py 32-33 calls _parse_datetime(value, required=True), a
\* form server.py and tools/events.py do not define: section 4.1 of the
\* specification, parse_instant(text, required).
parse_instant_never_required(value, required) == _parse_datetime(value)

parse_instant(value, required) ==
    IF value.t = "null" /\ required
    THEN Raised("ValueError", "Missing required field")
    ELSE _parse_datetime(value)

\* A fixed message in place of str(exc)
_error_response_fixed_message(msg) ==
    Map(<<Pair("error", Bool(TRUE)), Pair("message", Str("Internal error"))>>)

_error_response(msg) == Map(<<Pair("error", Bool(TRUE)), Pair("message", Str(msg))>>)

\* json.dumps(data, indent=2, default=str): the returned text, written as the
\* JSON document it encodes; a value json cannot encode (a datetime) is
\* replaced by its str() form.
RECURSIVE dumps(_)
dumps(d) ==
    IF d.t = "dt" THEN Str(d.v)
    ELSE IF d.t = "list" THEN List([i \in 1..Len(d.v) |-> dumps(d.v[i])])
    ELSE IF d.t = "map"
         THEN Map([i \in 1..Len(d.v) |-> Pair(d.v[i].k, dumps(d.v[i].v))])
    ELSE d

-----------------------------------------------------------------------------
(* The tools: tools/events.py, tools/calendars.py, tools/freebusy.py *)

NumThreads == 2

MaxInvocations == 3

Procs == 1..NumThreads

Tools == {"list_events", "get_event", "create_event", "update_event",
          "patch_event", "delete_event", "move_event", "list_event_instances",
          "list_calendars", "get_calendar", "create_calendar",
          "delete_calendar", "clear_calendar", "query_freebusy"}

ListTools == {"list_events", "list_event_instances", "list_calendars"}

DeleteTools == {"delete_event", "delete_calendar", "clear_calendar"}

\* The tools with a JSON-flexible parameter, and its name
JsonParam(t) ==
    CASE t \in {"create_event", "patch_event"} -> "attendees"
      [] t = "update_event" -> "body"
      [] t = "query_freebusy" -> "calendar_ids"
      [] OTHER -> ""

\* The tools with two datetime parameters (time_min/time_max or start/end)
TimeTools == {"list_events", "list_event_instances", "create_event",
              "patch_event", "query_freebusy"}

JsonInputs ==
    {Null, List(<<Str("primary")>>), Map(<<Pair("summary", Str("Sync"))>>)}
        \cup {Str(x) : x \in JsonTexts}

TimeInputs == {Null, Str("2024-06-15T10:00:00"), Str("2024-06-15T10:00:00Z"),
               Str("2024-06-15T10:00:00-06:00"), Str("soon"),
               Str("2024-13-01T10:00:00")}

\* group_expansion_max and calendar_expansion_max of the free/busy query
LimitInputs == {Null, Num(3)}

Ids == {"event-1", "cal-2"}

\* The parameters an invocation of tool t can be dispatched with
Args(t) ==
    [json : IF JsonParam(t) = "" THEN {Null}
            ELSE IF t \in {"create_event", "patch_event"} THEN JsonInputs
            ELSE JsonInputs \ {Null},
     time_min : IF t \in TimeTools THEN TimeInputs ELSE {Null},
     time_max : IF t \in TimeTools THEN TimeInputs ELSE {Null},
     id : IF t \in DeleteTools THEN Ids ELSE {""},
     group_expansion_max : IF t = "query_freebusy" THEN LimitInputs ELSE {Null},
     calendar_expansion_max : IF t = "query_freebusy" THEN LimitInputs ELSE {Null}]

\* What the remote client returns, in the plain form model_dump gives
Event1 ==
    Map(<<Pair("id", Str("event-1")), Pair("etag", Str("\"abc\"")),
          Pair("kind", Str("calendar#event")), Pair("sequence", Num(0)),
          Pair("reminders", Map(<<Pair("useDefault", Bool(TRUE))>>))>>)

Event2 ==
    Map(<<Pair("id", Str("event-2")),
          Pair("start", Map(<<Pair("dateTime", Dt("2024-06-15 10:00:00+00:00")),
                              Pair("timeZone", Null)>>))>>)

ErrorShaped == Map(<<Pair("error", Bool(TRUE)), Pair("message", Str("x"))>>)

\* The free/busy responses of tests/test_freebusy.py 23-37 and 58-63
FreeBusy1 ==
    Map(<<Pair("kind", Str("calendar#freeBusy")),
          Pair("timeMin", Dt("2024-01-01 00:00:00+00:00")),
          Pair("timeMax", Dt("2024-01-31 23:59:59+00:00")),
          Pair("calendars",
               Map(<<Pair("primary",
                          Map(<<Pair("busy",
                                     List(<<Map(<<Pair("start", Dt("2024-01-15 10:00:00+00:00")),
                                                  Pair("end", Dt("2024-01-15 11:00:00+00:00"))>>)>>))>>))>>))>>)

FreeBusy2 ==
    Map(<<Pair("kind", Null), Pair("timeMin", Null), Pair("timeMax", Null),
          Pair("calendars",
               Map(<<Pair("primary", Map(<<Pair("busy", List(<<>>))>>)),
                     Pair("other@example.com", Map(<<Pair("busy", List(<<>>))>>))>>))>>)

Objects == {Event1, Event2, ErrorShaped}

Returns(t) ==
    IF t \in ListTools THEN {List(<<>>), List(<<Event1>>), List(<<Event1, Event2>>)}
    ELSE IF t \in DeleteTools THEN {Null}
    ELSE IF t = "query_freebusy" THEN {FreeBusy1, FreeBusy2}
    ELSE Objects

RemoteMessages == {"Auth expired", "API error"}

\* The exception classes raised in the model: all derive from Exception
ExceptionClasses == {"ValueError", "RuntimeError", "TypeError", "OSError",
                     "AttributeError"}

\* `except ValueError`, in place of `except Exception`
Catches_ValueError_only(cls) == cls = "ValueError"

\* `except Exception as exc` (the handler of every tool)
Catches(cls) == cls \in ExceptionClasses

NoFailure == [stage |-> "", cls |-> "", msg |-> ""]

NoResult == [t |-> "none"]

\* No finished invocation is kept
NoneSeen == [tool |-> ""]

NoParams == [json |-> Null, time_min |-> NoInstant, time_max |-> NoInstant]

\* The arguments of the remote-client call, before the call is made
NotCalled == [t |-> "none"]

Idle == [pc |-> "idle", tool |-> "", n |-> 0, arg |-> CHOOSE a \in Args("get_event") : TRUE,
         client |-> 0, params |-> NoParams, calls |-> 0, sent |-> NotCalled,
         value |-> Null,
         result |-> NoResult, failure |-> NoFailure, escaped |-> FALSE]

InitTools ==
    /\ _client = 0
    /\ constructed = 0
    /\ failures = 0
    /\ builtBy = 0
    /\ invocations = 0
    /\ inv = [p \in Procs |-> Idle]
    /\ seen = NoneSeen

\* An exception of class cls raised in the try block at the given stage:
\* the handler returns _error_response(exc), or the exception leaves the tool.
Raise(p, stage, cls, msg) ==
    inv' = [inv EXCEPT ![p] =
               [@ EXCEPT !.pc = "done",
                         !.failure = [stage |-> stage, cls |-> cls, msg |-> msg],
                         !.result = IF Catches(cls) THEN _error_response(msg)
                                    ELSE NoResult,
                         !.escaped = ~Catches(cls)]]

\* One well-formed set of parameters per tool: the parameters take no part
\* in the steps of get_client, which is what concurrent dispatch interleaves.
ValidArgs(t) ==
    {a \in Args(t) :
        /\ a.json \in {Null, List(<<Str("primary")>>)}
        /\ a.time_min \in {Null, Str("2024-06-15T10:00:00")}
        /\ a.time_max = a.time_min
        /\ a.id \in {"", "event-1"}
        /\ a.group_expansion_max = Null /\ a.calendar_expansion_max = Null
        /\ JsonParam(t) # "" => a.json # Null
        /\ t \in TimeTools => a.time_min # Null}

\* The parameters normalised first, the client obtained only for the call
FirstStep_decoding == "decoding"

\* The first statement of every tool's try block: client = get_client()
FirstStep == "get_client"

\* A tool is dispatched with its parameters and enters its try block.
Start(p, wellFormedOnly) ==
    /\ inv[p].pc = "idle"
    /\ invocations < MaxInvocations
    /\ invocations' = invocations + 1
    /\ \E t \in Tools : \E a \in (IF wellFormedOnly THEN ValidArgs(t) ELSE Args(t)) :
          inv' = [inv EXCEPT ![p] =
                     [Idle EXCEPT !.pc = FirstStep, !.tool = t, !.arg = a,
                                  !.n = invocations + 1]]
    /\ UNCHANGED <<_client, constructed, failures, builtBy>>

\* Section 5: each invocation runs to completion before the next is dispatched.
Invoke(p) ==
    /\ \A q \in Procs : inv[q].pc = "idle"
    /\ Start(p, FALSE)
    /\ UNCHANGED <<slimVars, seen>>

\* Invocations dispatched while others are in progress.
InvokeConcurrently(p) ==
    /\ Start(p, TRUE)
    /\ UNCHANGED <<slimVars, seen>>

\* server.py 26: `if _client is None`
ClientIsNone_always(c) == TRUE

ClientIsNone(c) == c = 0

\* server.py 26, and 28 when the handle is set
GetClient(p) ==
    /\ inv[p].pc = "get_client"
    /\ inv' = [inv EXCEPT ![p] =
                  IF ClientIsNone(_client) THEN [@ EXCEPT !.pc = "construct"]
                  ELSE [@ EXCEPT !.pc = "decoding", !.client = _client]]
    /\ UNCHANGED <<_client, constructed, failures, builtBy, invocations>>
    /\ UNCHANGED <<slimVars, seen>>

\* The handle bound to an object whose construction did not complete
HandleAfterFailure_partial(c) == 1

\* server.py 27: when GCalClient() raises, the assignment of its value to
\* _client does not take place.
HandleAfterFailure(c) == c

\* server.py 27-28: GCalClient() returns a new object, which is assigned to
\* the handle and returned, or raises (the credentials cannot be loaded).
Construct(p) ==
    /\ inv[p].pc = "construct"
    /\ \/ /\ constructed' = constructed + 1
          /\ _client' = constructed + 1
          /\ builtBy' = IF constructed = 0 THEN inv[p].n ELSE builtBy
          /\ inv' = [inv EXCEPT ![p] =
                        [@ EXCEPT !.pc = "decoding", !.client = constructed + 1]]
          /\ UNCHANGED failures
       \/ /\ failures' = failures + 1
          /\ Raise(p, "construct", "OSError", "credentials not found")
          /\ _client' = HandleAfterFailure(_client)
          /\ UNCHANGED <<constructed, builtBy>>
    /\ UNCHANGED invocations
    /\ UNCHANGED <<slimVars, seen>>

\* The parameters of tool t as the try block normalises them, in the order
\* the code evaluates them; the first failure is the exception raised.
Decoded(t, a) ==
    LET j  == IF JsonParam(t) = "" THEN Returned(Null)
              ELSE _parse_json(a.json, JsonParam(t))
        t1 == IF t \notin TimeTools THEN Returned(NoInstant)
              ELSE IF t = "query_freebusy" THEN parse_instant(a.time_min, TRUE)
              ELSE _parse_datetime(a.time_min)
        t2 == IF t \notin TimeTools THEN Returned(NoInstant)
              ELSE IF t = "query_freebusy" THEN parse_instant(a.time_max, TRUE)
              ELSE _parse_datetime(a.time_max)
    IN  IF ~j.ok THEN j
        ELSE IF ~t1.ok THEN t1
        ELSE IF ~t2.ok THEN t2
        ELSE Returned([json |-> j.val, time_min |-> t1.val, time_max |-> t2.val])

Decode(p) ==
    /\ inv[p].pc = "decoding"
    /\ LET d == Decoded(inv[p].tool, inv[p].arg) IN
       IF d.ok
       THEN inv' = [inv EXCEPT ![p] = [@ EXCEPT !.pc = "invoking", !.params = d.val]]
       ELSE Raise(p, "decode", d.cls, d.msg)
    /\ UNCHANGED <<_client, constructed, failures, builtBy, invocations>>
    /\ UNCHANGED <<slimVars, seen>>

\* A parsed instant as an argument of the remote client: None or a datetime
Inst(i) == IF i = NoInstant THEN Null ELSE [t |-> "instant", v |-> i]

\* The two limits added to kwargs whether they are None or not
ExpansionLimits_always_passed(a) ==
    <<Pair("group_expansion_max", a.group_expansion_max),
      Pair("calendar_expansion_max", a.calendar_expansion_max)>>

\* tools/freebusy.py 36-39: a limit is added to kwargs when it is not None
ExpansionLimits(a) ==
    (IF a.group_expansion_max # Null
     THEN <<Pair("group_expansion_max", a.group_expansion_max)>>
     ELSE <<>>)
    \o (IF a.calendar_expansion_max # Null
        THEN <<Pair("calendar_expansion_max", a.calendar_expansion_max)>>
        ELSE <<>>)

\* The arguments tool t passes to its remote-client operation, each under
\* the name of the parameter it binds, in the order of the call. A parameter
\* the invocations do not vary has its default, or one fixed value when it
\* has none.
CallArgs(t, a, params) ==
    CASE t = "list_events" ->
           Map(<<Pair("calendar_id", Str("primary")),
                 Pair("time_min", Inst(params.time_min)),
                 Pair("time_max", Inst(params.time_max)),
                 Pair("max_results", Num(25)), Pair("q", Null),
                 Pair("single_events", Bool(TRUE)),
                 Pair("order_by", Str("startTime"))>>)
      [] t = "get_event" ->
           Map(<<Pair("calendar_id", Str("primary")), Pair("event_id", Str("event-1"))>>)
      [] t = "create_event" ->
           Map(<<Pair("calendar_id", Str("primary")), Pair("summary", Str("Team Sync")),
                 Pair("description", Null), Pair("location", Null),
                 Pair("start", Inst(params.time_min)),
                 Pair("end", Inst(params.time_max)),
                 Pair("attendees", params.json), Pair("time_zone", Null)>>)
      [] t = "update_event" ->
           Map(<<Pair("calendar_id", Str("primary")), Pair("event_id", Str("event-1")),
                 Pair("body", params.json)>>)
      [] t = "patch_event" ->
           Map(<<Pair("calendar_id", Str("primary")), Pair("event_id", Str("event-1")),
                 Pair("summary", Null), Pair("description", Null),
                 Pair("location", Null),
                 Pair("start", Inst(params.time_min)),
                 Pair("end", Inst(params.time_max)),
                 Pair("attendees", params.json), Pair("time_zone", Null)>>)
      [] t = "delete_event" ->
           Map(<<Pair("calendar_id", Str("primary")), Pair("event_id", Str(a.id)),
                 Pair("send_updates", Null)>>)
      [] t = "move_event" ->
           Map(<<Pair("calendar_id", Str("primary")), Pair("event_id", Str("event-1")),
                 Pair("destination_calendar_id", Str("cal-2"))>>)
      [] t = "list_event_instances" ->
           Map(<<Pair("calendar_id", Str("primary")), Pair("event_id", Str("event-1")),
                 Pair("time_min", Inst(params.time_min)),
                 Pair("time_max", Inst(params.time_max)),
                 Pair("max_results", Num(25))>>)
      [] t = "list_calendars" ->
           Map(<<Pair("show_deleted", Bool(FALSE)), Pair("show_hidden", Bool(FALSE)),
                 Pair("max_results", Num(100))>>)
      [] t = "get_calendar" -> Map(<<Pair("calendar_id", Str("primary"))>>)
      [] t = "create_calendar" ->
           Map(<<Pair("summary", Str("Team")), Pair("description", Null),
                 Pair("time_zone", Null), Pair("location", Null)>>)
      [] t \in {"delete_calendar", "clear_calendar"} ->
           Map(<<Pair("calendar_id", Str(a.id))>>)
      [] OTHER ->
           Map(<<Pair("calendar_ids", params.json),
                 Pair("time_min", Inst(params.time_min)),
                 Pair("time_max", Inst(params.time_max)),
                 Pair("time_zone", Null)>> \o ExpansionLimits(a))

\* Call with one retry: after a first failure the operation is called again.
Call_with_retry(p) ==
    /\ inv[p].pc = "invoking"
    /\ \/ \E v \in Returns(inv[p].tool) :
             inv' = [inv EXCEPT ![p] =
                        [@ EXCEPT !.pc = "slimming", !.value = v,
                                  !.calls = @ + 1,
                                  !.sent = CallArgs(inv[p].tool, inv[p].arg,
                                                    inv[p].params)]]
       \/ \E m \in RemoteMessages :
             inv' = [inv EXCEPT ![p] =
                        IF inv[p].calls = 0
                        THEN [@ EXCEPT !.calls = @ + 1,
                                       !.sent = CallArgs(inv[p].tool, inv[p].arg,
                                                         inv[p].params)]
                        ELSE [@ EXCEPT !.pc = "done", !.calls = @ + 1,
                                       !.failure = [stage |-> "call",
                                                    cls |-> "RuntimeError", msg |-> m],
                                       !.result = _error_response(m)]]
    /\ UNCHANGED <<_client, constructed, failures, builtBy, invocations>>
    /\ UNCHANGED <<slimVars, seen>>

\* The remote-client operation is called: it returns or raises.
Call(p) ==
    /\ inv[p].pc = "invoking"
    /\ \/ \E v \in Returns(inv[p].tool) :
             inv' = [inv EXCEPT ![p] =
                        [@ EXCEPT !.pc = "slimming", !.value = v,
                                  !.calls = @ + 1,
                                  !.sent = CallArgs(inv[p].tool, inv[p].arg,
                                                    inv[p].params)]]
       \/ \E m \in RemoteMessages :
             inv' = [inv EXCEPT ![p] =
                        [@ EXCEPT !.pc = "done", !.calls = @ + 1,
                                  !.sent = CallArgs(inv[p].tool, inv[p].arg,
                                                    inv[p].params),
                                  !.failure = [stage |-> "call", cls |-> "RuntimeError",
                                               msg |-> m],
                                  !.result = IF Catches("RuntimeError")
                                             THEN _error_response(m) ELSE NoResult,
                                  !.escaped = ~Catches("RuntimeError")]]
    /\ UNCHANGED <<_client, constructed, failures, builtBy, invocations>>
    /\ UNCHANGED <<slimVars, seen>>

\* The text carries a module-level count of the invocations served so far
SuccessText_numbered(t, a, value) ==
    dumps(Map(<<Pair("served", Num(invocations)),
                Pair("data", IF t \in DeleteTools THEN Str(a.id)
                             ELSE _slim_response(value))>>))

\* clear_calendar returning the document of delete_calendar
SuccessText_deleted_for_cleared(t, a, value) ==
    IF t \in DeleteTools
    THEN dumps(Map(<<Pair("success", Bool(TRUE)), Pair("deleted", Str(a.id))>>))
    ELSE dumps(_slim_response(value))

\* json.dumps(data, ...) in place of json.dumps(_slim_response(data), ...)
SuccessText_unslimmed(t, a, value) ==
    IF t \in {"delete_event", "delete_calendar"}
    THEN dumps(Map(<<Pair("success", Bool(TRUE)), Pair("deleted", Str(a.id))>>))
    ELSE IF t = "clear_calendar"
    THEN dumps(Map(<<Pair("success", Bool(TRUE)), Pair("cleared", Str(a.id))>>))
    ELSE dumps(value)

\* The text a tool returns when nothing raised
SuccessText(t, a, value) ==
    IF t \in {"delete_event", "delete_calendar"}
    THEN dumps(Map(<<Pair("success", Bool(TRUE)), Pair("deleted", Str(a.id))>>))
    ELSE IF t = "clear_calendar"
    THEN dumps(Map(<<Pair("success", Bool(TRUE)), Pair("cleared", Str(a.id))>>))
    ELSE dumps(_slim_response(value))

\* model_dump, _slim_response and json.dumps: the text is returned, or the
\* conversion or the serialisation raises.
Finish(p) ==
    /\ inv[p].pc = "slimming"
    /\ \/ inv' = [inv EXCEPT ![p] =
                     [@ EXCEPT !.pc = "done",
                               !.result = SuccessText(inv[p].tool, inv[p].arg,
                                                      inv[p].value)]]
       \/ /\ inv[p].tool \notin DeleteTools
          /\ \/ Raise(p, "convert", "AttributeError", "object has no attribute 'model_dump'")
             \/ Raise(p, "dump", "TypeError", "keys must be str, int, float, bool or None")
    /\ UNCHANGED <<_client, constructed, failures, builtBy, invocations>>
    /\ UNCHANGED <<slimVars, seen>>

\* The caller has the returned text; the thread is free again.
Return(p) ==
    /\ inv[p].pc = "done"
    /\ inv' = [inv EXCEPT ![p] = Idle]
    /\ UNCHANGED <<_client, constructed, failures, builtBy, invocations>>
    /\ UNCHANGED <<slimVars, seen>>

\* The tools whose finished invocations are kept for comparison
ComparedTools == {"get_event", "delete_event"}

\* What the remote client did in the invocation i: whether its operation was
\* called, the value returned, and the failure of its constructor, of the
\* call, or of the conversion or serialisation of the object returned
Response(i) ==
    [calls |-> i.calls, value |-> i.value,
     raised |-> IF i.failure.stage \in {"construct", "call", "convert", "dump"}
                THEN i.failure ELSE NoFailure]

\* Return, the finished invocation being kept: its tool, its parameters,
\* what the remote client did and the text returned.
Remember(p) ==
    /\ inv[p].pc = "done"
    /\ seen = NoneSeen
    /\ inv[p].tool \in ComparedTools
    /\ seen' = [tool |-> inv[p].tool, arg |-> inv[p].arg,
                response |-> Response(inv[p]), result |-> inv[p].result]
    /\ inv' = [inv EXCEPT ![p] = Idle]
    /\ UNCHANGED <<_client, constructed, failures, builtBy, invocations>>
    /\ UNCHANGED slimVars

InitSlimIdle ==
    /\ doc = Null
    /\ out = Null
    /\ out2 = Null
    /\ spc = "in"

Init == InitSlimIdle /\ InitTools

Next ==
    \E p \in Procs :
        \/ Invoke(p)
        \/ GetClient(p)
        \/ Construct(p)
        \/ Decode(p)
        \/ Call(p)
        \/ Finish(p)
        \/ Return(p)

Spec == Init /\ [][Next]_vars

NextConc ==
    \E p \in Procs :
        \/ InvokeConcurrently(p)
        \/ GetClient(p)
        \/ Construct(p)
        \/ Decode(p)
        \/ Call(p)
        \/ Finish(p)
        \/ Return(p)

SpecConc == Init /\ [][NextConc]_vars

\* Sequential invocations, one of which is kept when it returns
NextPair ==
    \E p \in Procs :
        \/ Invoke(p)
        \/ GetClient(p)
        \/ Construct(p)
        \/ Decode(p)
        \/ Call(p)
        \/ Finish(p)
        \/ Return(p)
        \/ Remember(p)

SpecPair == Init /\ [][NextPair]_vars

-----------------------------------------------------------------------------
(* SpecSlim: _slim_response applied to a document, and to its own result *)


InitSlim ==
    /\ doc \in SeedDocs
    /\ out = Null
    /\ out2 = Null
    /\ spc = "in"
    /\ InitTools

\* The document grows (the remote client's answer is any document of at most
\* MaxNodes nodes): it is nested in a sequence or under a key, or a leaf is
\* added to it, a mapping keeping its keys distinct and in the order of KeySeq.
WrapList ==
    /\ spc = "in" /\ Size(doc) < MaxNodes
    /\ doc' = List(<<doc>>)
    /\ UNCHANGED <<out, out2, spc>>
    /\ UNCHANGED <<toolVars, seen>>

WrapMap ==
    /\ spc = "in" /\ Size(doc) < MaxNodes
    /\ \E i \in 1..Len(KeySeq) : doc' = Map(<<Pair(KeySeq[i], doc)>>)
    /\ UNCHANGED <<out, out2, spc>>
    /\ UNCHANGED <<toolVars, seen>>

AddItem ==
    /\ spc = "in" /\ Size(doc) < MaxNodes /\ doc.t = "list"
    /\ \E e \in Leaves : doc' = List(Append(doc.v, e)) \/ doc' = List(<<e>> \o doc.v)
    /\ UNCHANGED <<out, out2, spc>>
    /\ UNCHANGED <<toolVars, seen>>

AddEntry ==
    /\ spc = "in" /\ Size(doc) < MaxNodes /\ doc.t = "map"
    /\ \E i \in 1..Len(KeySeq), e \in Leaves :
          /\ KeySeq[i] \notin KeysOf(doc)
          /\ \/ /\ IF doc.v = <<>> THEN TRUE ELSE KeyIdx(doc.v[Len(doc.v)].k) < i
                /\ doc' = Map(Append(doc.v, Pair(KeySeq[i], e)))
             \/ /\ IF doc.v = <<>> THEN FALSE ELSE i < KeyIdx(doc.v[1].k)
                /\ doc' = Map(<<Pair(KeySeq[i], e)>> \o doc.v)
    /\ UNCHANGED <<out, out2, spc>>
    /\ UNCHANGED <<toolVars, seen>>

\* The tests of the loop body on one entry (server.py 77-102): `is None`,
\* `==` against "", [], a dict and 0, `in` a set of strings and isinstance.
\* None of them raises, whatever the kind of the value.
TestRaises(key, value) == FALSE

\* _slim_response(data) raises: a test raises on an entry the loop reaches,
\* or the call on an element or on a kept value raises.
RECURSIVE SlimRaises(_)
SlimRaises(data) ==
    IF data.t = "list" THEN \E i \in 1..Len(data.v) : SlimRaises(data.v[i])
    ELSE IF data.t = "map"
    THEN \E i \in 1..Len(data.v) :
            \/ TestRaises(data.v[i].k, data.v[i].v)
            \/ ~Stripped(data.v[i].k, data.v[i].v) /\ SlimRaises(data.v[i].v)
    ELSE FALSE

\* The entries are deleted from data itself (`del data[key]`), not left out
\* of a new dict.
InputAfterSlim_stripped_in_place(data) == _slim_response(data)

\* The object passed as data once the call has returned: the list
\* comprehension (68) and `result` (73) are new objects, the stores of 105
\* and 108 are to the local `value` and to `result`, and data is only read.
InputAfterSlim(data) == data

Slim ==
    /\ spc = "in"
    /\ IF SlimRaises(doc)
       THEN spc' = "raised" /\ UNCHANGED out
       ELSE spc' = "slimmed" /\ out' = _slim_response(doc)
    /\ doc' = InputAfterSlim(doc)
    /\ UNCHANGED out2
    /\ UNCHANGED <<toolVars, seen>>

SlimAgain ==
    /\ spc = "slimmed"
    /\ IF SlimRaises(out)
       THEN spc' = "raised" /\ UNCHANGED out2
       ELSE spc' = "twice" /\ out2' = _slim_response(out)
    /\ out' = InputAfterSlim(out)
    /\ UNCHANGED doc
    /\ UNCHANGED <<toolVars, seen>>

NextSlim == WrapList \/ WrapMap \/ AddItem \/ AddEntry \/ Slim \/ SlimAgain

SpecSlim == InitSlim /\ [][NextSlim]_vars

-----------------------------------------------------------------------------
(* Properties of _slim_response, checked under SpecSlim *)

\* The stripping rules as the specification states them (section 4.2, rules
\* 1-6), read on a single entry: the sentinel is the one-entry mapping with
\* the boolean true, and the revision counter is the number zero.
EmptyValue(value) == value \in {Null, Str(""), List(<<>>)}

DefaultSentinels == {Map(<<Pair("useDefault", Bool(TRUE))>>),
                     Map(<<Pair("use_default", Bool(TRUE))>>)}

RuleMatches(key, value) ==
    \/ EmptyValue(value)
    \/ key \in {"etag", "kind"}
    \/ key = "iCalUID"
    \/ key = "reminders" /\ value \in DefaultSentinels
    \/ key = "sequence" /\ value = Num(0)

\* No mapping of d, at any depth, has an entry that a rule matches.
RECURSIVE NothingToStrip(_)
NothingToStrip(d) ==
    IF d.t = "list" THEN \A i \in 1..Len(d.v) : NothingToStrip(d.v[i])
    ELSE IF d.t = "map"
         THEN \A i \in 1..Len(d.v) :
                 ~RuleMatches(d.v[i].k, d.v[i].v) /\ NothingToStrip(d.v[i].v)
    ELSE TRUE

\* C2: slim is idempotent: slimming the result of slim changes nothing.
C2_Idempotent == spc = "twice" => out2 = out

\* C6: in a mapping, every key whose value is null, "" or [] is absent from
\* the result, and every sibling key that no stripping rule matches is present.
C6_EmptyStrippedSiblingsKept ==
    (spc # "in" /\ doc.t = "map") =>
        \A i \in 1..Len(doc.v) :
            /\ EmptyValue(doc.v[i].v) => doc.v[i].k \notin KeysOf(out)
            /\ \A j \in 1..Len(doc.v) :
                  (EmptyValue(doc.v[i].v) /\ ~RuleMatches(doc.v[j].k, doc.v[j].v))
                      => doc.v[j].k \in KeysOf(out)

\* Some mapping of d, at any depth, has the key etag or the key kind.
RECURSIVE HasNoiseKey(_)
HasNoiseKey(d) ==
    IF d.t = "list" THEN \E i \in 1..Len(d.v) : HasNoiseKey(d.v[i])
    ELSE IF d.t = "map"
         THEN \E i \in 1..Len(d.v) :
                 d.v[i].k \in {"etag", "kind"} \/ HasNoiseKey(d.v[i].v)
    ELSE FALSE

\* C7: no mapping of the result, at any depth, has the key etag or kind.
C7_NoNoiseKeys == spc # "in" => ~HasNoiseKey(out)

\* An event with etag and kind, inside a sequence, was slimmed and kept its id.
C7_Witness ==
    /\ spc = "slimmed" /\ doc.t = "list" /\ Len(doc.v) = 1
    /\ doc.v[1].t = "map" /\ {"etag", "kind", "id"} \subseteq KeysOf(doc.v[1])
    /\ out.t = "list" /\ Len(out.v) = 1
    /\ out.v[1].t = "map" /\ "id" \in KeysOf(out.v[1])

C9_SequenceZeroOnly ==
    (spc # "in" /\ doc.t = "map" /\ "sequence" \in KeysOf(doc)
        /\ ~EmptyValue(Get(doc, "sequence"))) =>
        /\ "sequence" \notin KeysOf(out) <=> Get(doc, "sequence") = Num(0)
        /\ (Get(doc, "sequence").t = "num" /\ Get(doc, "sequence").v # 0)
              => /\ "sequence" \in KeysOf(out)
                 /\ Get(out, "sequence") = Get(doc, "sequence")

\* slim drops the entry (key, value) from a top-level mapping.
TopLevelDrops(key, value) == _slim_response(Map(<<Pair(key, value)>>)) = Map(<<>>)

\* Every entry of a mapping of d, at any depth reached through kept entries
\* and sequence elements, that slim drops from a top-level mapping is absent
\* from the mapping at the same place of r.
RECURSIVE DroppedAtDepth(_, _)
DroppedAtDepth(d, r) ==
    IF d.t = "list"
    THEN /\ r.t = "list" /\ Len(r.v) = Len(d.v)
         /\ \A i \in 1..Len(d.v) : DroppedAtDepth(d.v[i], r.v[i])
    ELSE IF d.t = "map"
    THEN /\ r.t = "map"
         /\ \A i \in 1..Len(d.v) :
               IF TopLevelDrops(d.v[i].k, d.v[i].v)
               THEN d.v[i].k \notin KeysOf(r)
               ELSE /\ d.v[i].k \in KeysOf(r)
                    /\ DroppedAtDepth(d.v[i].v, Get(r, d.v[i].k))
    ELSE TRUE

\* C10: a field slim drops from a top-level mapping is also dropped when its
\* mapping is an element of a sequence or the value of a key, at any depth.
C10_StrippingAtEveryDepth == spc # "in" => DroppedAtDepth(doc, out)

\* A null location and the iCalUID of an event inside a sequence were
\* dropped, and its nested start mapping was kept.
C10_Witness ==
    /\ spc = "slimmed" /\ doc = List(<<RealisticEvent>>)
    /\ out.t = "list" /\ Len(out.v) = 1 /\ out.v[1].t = "map"
    /\ KeysOf(out.v[1]) = {"id", "summary", "start", "creator"}

-----------------------------------------------------------------------------
(* Properties of the tool invocations, checked under Spec and SpecConc *)

\* The error envelope {"error": true, "message": <string>}
IsErrorShape(d) ==
    /\ d.t = "map" /\ KeysOf(d) = {"error", "message"}
    /\ Get(d, "error") = Bool(TRUE)
    /\ Get(d, "message").t = "str"

\* C1: whatever the tool and the stage at which a failure is raised, the
\* invocation returns {"error": true, "message": <text of the failure>} and
\* no failure leaves the tool.
C1_FailuresReturnErrorEnvelope ==
    \A p \in Procs :
        /\ ~inv[p].escaped
        /\ inv[p].failure # NoFailure =>
              /\ inv[p].pc = "done"
              /\ inv[p].result = Map(<<Pair("error", Bool(TRUE)),
                                       Pair("message", Str(inv[p].failure.msg))>>)

\* The free/busy query raised while its result was serialised.
C1_Witness ==
    \E p \in Procs :
        /\ inv[p].pc = "done" /\ inv[p].tool = "query_freebusy"
        /\ inv[p].failure.stage = "dump"
        /\ IsErrorShape(inv[p].result)

\* C3: an invocation in which nothing was raised never returns a document
\* of the error shape.
C3_SuccessNeverErrorShaped ==
    \A p \in Procs :
        (inv[p].pc = "done" /\ inv[p].failure = NoFailure)
            => ~IsErrorShape(inv[p].result)

\* C4: under concurrent dispatch at most one client is ever constructed.
C4_AtMostOneClientConstructed == constructed <= 1

\* C5 as stated: once the first invocation is past get_client, exactly one
\* client has been constructed, by that invocation, and it is the handle.
C5_ConstructedOnceByFirstInvocation ==
    (invocations >= 1
        /\ \A p \in Procs : inv[p].n = 1 => inv[p].pc \notin {"get_client", "construct"})
    => (constructed = 1 /\ builtBy = 1 /\ _client = 1)

\* C5 amended: in a sequential series of invocations at most one client is
\* constructed, by the first invocation whose construction does not fail;
\* the handle, once set, is that client for good, and every invocation past
\* get_client holds it.
C5_ConstructedAtMostOnce ==
    /\ constructed <= 1
    /\ constructed = 0 => _client = 0
    /\ constructed = 1 => (_client = 1 /\ builtBy = failures + 1)
    /\ \A p \in Procs :
          (\/ inv[p].pc \in {"decoding", "invoking", "slimming"}
           \/ inv[p].pc = "done" /\ inv[p].failure.stage # "construct")
          => (inv[p].client = 1 /\ _client = 1)

\* The first invocation failed to construct the client, the second
\* constructed it, and the third is calling the remote client with it.
C5_Witness ==
    \E p \in Procs :
        /\ inv[p].n = 3 /\ inv[p].pc = "invoking" /\ inv[p].client = 1
        /\ failures = 1 /\ builtBy = 2 /\ constructed = 1

\* A JSON text and the structured value it encodes
EquivalentJson ==
    {<<Str("[\"primary\"]"), List(<<Str("primary")>>)>>,
     <<Str("{\"summary\": \"Sync\"}"), Map(<<Pair("summary", Str("Sync"))>>)>>}

\* C11: for every tool with a JSON-flexible parameter, a structured list or
\* mapping reaches the remote client unchanged, and a JSON text reaches it
\* as the value it encodes, which is what the structured form of the same
\* value reaches it as.
C11_StructuredAndTextPassSameValue ==
    \A p \in Procs :
        (JsonParam(inv[p].tool) # "" /\ inv[p].sent # NotCalled) =>
            /\ inv[p].arg.json.t \in {"list", "map"}
                  => Get(inv[p].sent, JsonParam(inv[p].tool)) = inv[p].arg.json
            /\ \A e \in EquivalentJson :
                  inv[p].arg.json = e[1]
                      => Get(inv[p].sent, JsonParam(inv[p].tool)) = e[2]

\* The free/busy query was called with calendar_ids as JSON text and the
\* remote client received the list.
C11_Witness ==
    \E p \in Procs :
        /\ inv[p].tool = "query_freebusy" /\ inv[p].calls = 1
        /\ inv[p].arg.json = Str("[\"primary\"]")
        /\ Get(inv[p].sent, "calendar_ids") = List(<<Str("primary")>>)

\* The JSON-flexible values that are text but not JSON
MalformedJson == {Str("{bad json[")}

\* The texts that contain "Invalid JSON" and the parameter name
NamesInvalidJson(name) ==
    IF name = "attendees"
    THEN {"Invalid JSON for parameter 'attendees': Expecting property name enclosed in double quotes: line 1 column 2 (char 1)"}
    ELSE IF name = "body"
    THEN {"Invalid JSON for parameter 'body': Expecting property name enclosed in double quotes: line 1 column 2 (char 1)"}
    ELSE IF name = "calendar_ids"
    THEN {"Invalid JSON for parameter 'calendar_ids': Expecting property name enclosed in double quotes: line 1 column 2 (char 1)"}
    ELSE {}

TimeArgNames(t) ==
    IF t \in {"create_event", "patch_event"} THEN <<"start", "end">>
    ELSE <<"time_min", "time_max">>

\* A datetime text without offset, the same text with the UTC designator,
\* and the instant the latter denotes
UtcForms ==
    {[naive |-> Str("2024-06-15T10:00:00"), utc |-> Str("2024-06-15T10:00:00Z"),
      instant |-> [t |-> "instant", v |-> Instant("2024-06-15T10:00:00", "+00:00")]]}

\* What the remote client is passed for a datetime parameter given as text:
\* None for None, else an instant with an offset, the UTC one for a text
\* without offset or with the UTC designator
SentInstantOk(given, passed) ==
    /\ passed = Null <=> given = Null
    /\ passed # Null => (passed.t = "instant" /\ passed.v.tz # "")
    /\ \A f \in UtcForms : given \in {f.naive, f.utc} => passed = f.instant

\* C13: in the tools of tools/events.py, an instant passed to the remote
\* client always carries an explicit offset, and a text without offset is
\* passed as the instant the same text with the UTC designator is passed as.
C13_NaiveTextIsUtc ==
    \A p \in Procs :
        (inv[p].tool \in TimeTools \ {"query_freebusy"} /\ inv[p].sent # NotCalled) =>
            /\ SentInstantOk(inv[p].arg.time_min,
                             Get(inv[p].sent, TimeArgNames(inv[p].tool)[1]))
            /\ SentInstantOk(inv[p].arg.time_max,
                             Get(inv[p].sent, TimeArgNames(inv[p].tool)[2]))

\* create_event was called with a start without offset and an end with the
\* UTC designator, and the remote client received the same instant twice.
C13_Witness ==
    \E p \in Procs :
        /\ inv[p].tool = "create_event" /\ inv[p].calls = 1
        /\ inv[p].arg.time_min = Str("2024-06-15T10:00:00")
        /\ inv[p].arg.time_max = Str("2024-06-15T10:00:00Z")
        /\ Get(inv[p].sent, "start") = Get(inv[p].sent, "end")
        /\ Get(inv[p].sent, "start").v.tz = "+00:00"

\* The valid calendar_ids values and datetime texts, and the instant each
\* text denotes
ValidCalendarIds == {List(<<Str("primary")>>), Str("[\"primary\"]")}

ValidTimes == {Str("2024-06-15T10:00:00"), Str("2024-06-15T10:00:00Z"),
               Str("2024-06-15T10:00:00-06:00")}

InstantOfText(x) ==
    [t |-> "instant",
     v |-> IF x = Str("2024-06-15T10:00:00-06:00")
           THEN Instant("2024-06-15T10:00:00", "-06:00")
           ELSE Instant("2024-06-15T10:00:00", "+00:00")]

\* FreeBusy1 without its kind, the instants in their text form
SlimFreeBusy1 ==
    Map(<<Pair("timeMin", Str("2024-01-01 00:00:00+00:00")),
          Pair("timeMax", Str("2024-01-31 23:59:59+00:00")),
          Pair("calendars",
               Map(<<Pair("primary",
                          Map(<<Pair("busy",
                                     List(<<Map(<<Pair("start", Str("2024-01-15 10:00:00+00:00")),
                                                  Pair("end", Str("2024-01-15 11:00:00+00:00"))>>)>>))>>))>>))>>)

MissingFieldEnvelope ==
    Map(<<Pair("error", Bool(TRUE)), Pair("message", Str("Missing required field"))>>)

\* A null instant that is not required is passed to the remote client as null.
NullInstantPassedAsNull(p) ==
    (inv[p].tool \in TimeTools \ {"query_freebusy"} /\ inv[p].sent # NotCalled) =>
        /\ inv[p].arg.time_min = Null
              => Get(inv[p].sent, TimeArgNames(inv[p].tool)[1]) = Null
        /\ inv[p].arg.time_max = Null
              => Get(inv[p].sent, TimeArgNames(inv[p].tool)[2]) = Null

C16_ListEventsScenario ==
    \A p \in Procs :
        (/\ inv[p].tool = "list_events" /\ inv[p].pc = "done"
         /\ inv[p].arg.time_min = Null /\ inv[p].arg.time_max = Null
         /\ inv[p].failure = NoFailure) =>
            /\ inv[p].result.t = "list"
            /\ Len(inv[p].result.v) = Len(inv[p].value.v)
            /\ inv[p].value = List(<<Event1>>)
                  => inv[p].result = List(<<Map(<<Pair("id", Str("event-1"))>>)>>)

\* The scenario: one call, the event returned, the text returned.
C16_Witness ==
    \E p \in Procs :
        /\ inv[p].tool = "list_events" /\ inv[p].pc = "done"
        /\ inv[p].arg.time_min = Null /\ inv[p].arg.time_max = Null
        /\ inv[p].calls = 1 /\ inv[p].value = List(<<Event1>>)
        /\ inv[p].result = List(<<Map(<<Pair("id", Str("event-1"))>>)>>)

\* C17: list_events invoked with no parameters calls the remote client's
\* event list once, with calendar "primary", time_min null, time_max null,
\* max_results 25, q null, single_events true, order_by "startTime",
\* show_deleted false and page_token null.
C17_ListEventsDefaultCall ==
    \A p \in Procs :
        (/\ inv[p].tool = "list_events"
         /\ inv[p].arg.time_min = Null /\ inv[p].arg.time_max = Null
         /\ inv[p].pc \in {"slimming", "done"}
         /\ inv[p].failure.stage # "construct") =>
            /\ inv[p].calls = 1
            /\ inv[p].sent =
                  Map(<<Pair("calendar_id", Str("primary")),
                        Pair("time_min", Null), Pair("time_max", Null),
                        Pair("max_results", Num(25)), Pair("q", Null),
                        Pair("single_events", Bool(TRUE)),
                        Pair("order_by", Str("startTime")),
                        Pair("show_deleted", Bool(FALSE)),
                        Pair("page_token", Null)>>)

\* C18: whatever the tool, when its remote-client operation raises a failure
\* with message m, what is returned is the two-entry document
\* {"error": true, "message": m} and nothing of a result.
C18_RemoteFailureMessageUnaltered ==
    \A p \in Procs :
        inv[p].failure.stage = "call" =>
            /\ inv[p].pc = "done" /\ inv[p].calls = 1 /\ inv[p].value = Null
            /\ inv[p].failure.msg \in RemoteMessages
            /\ inv[p].result.t = "map" /\ Len(inv[p].result.v) = 2
            /\ inv[p].result.v[1] = Pair("error", Bool(TRUE))
            /\ inv[p].result.v[2] = Pair("message", Str(inv[p].failure.msg))

\* The remote clear of a calendar raised "Auth expired".
C18_Witness ==
    \E p \in Procs :
        /\ inv[p].tool = "clear_calendar" /\ inv[p].pc = "done"
        /\ inv[p].failure.stage = "call" /\ inv[p].failure.msg = "Auth expired"
        /\ inv[p].result = Map(<<Pair("error", Bool(TRUE)),
                                 Pair("message", Str("Auth expired"))>>)

\* The state of section 4.4 an invocation is in: obtaining the client handle
\* and normalising the parameters are the steps before the remote call.
Phase(pc) ==
    CASE pc = "idle" -> "Idle"
      [] pc \in {"get_client", "construct", "decoding"} -> "Decoding"
      [] pc = "invoking" -> "Invoking"
      [] pc = "slimming" -> "Slimming"
      [] OTHER -> "Done"

PhaseOrder ==
    {<<"Idle", "Decoding">>, <<"Decoding", "Decoding">>, <<"Decoding", "Invoking">>,
     <<"Decoding", "Done">>, <<"Invoking", "Slimming">>, <<"Invoking", "Done">>,
     <<"Slimming", "Done">>, <<"Done", "Idle">>}

\* Every JSON-flexible and datetime parameter of the invocation decodes.
AllParametersDecode(t, a) ==
    /\ JsonParam(t) # "" => a.json \notin MalformedJson
    /\ t \in TimeTools =>
          /\ a.time_min \in ValidTimes \cup (IF t = "query_freebusy" THEN {} ELSE {Null})
          /\ a.time_max \in ValidTimes \cup (IF t = "query_freebusy" THEN {} ELSE {Null})

\* C19 on a state: the remote operation has been called at most once; past
\* Invoking it has been called once, and a finished invocation (the client
\* handle being available) has called it once if all its parameters decode,
\* and never if one of them fails.
CalledAtMostOnce(p) ==
    /\ inv[p].calls <= 1
    /\ inv[p].pc \in {"idle", "get_client", "construct", "decoding", "invoking"}
          => inv[p].calls = 0
    /\ inv[p].pc = "slimming" => inv[p].calls = 1
    /\ (inv[p].pc = "done" /\ inv[p].failure.stage # "construct") =>
          /\ inv[p].calls = 1 <=> AllParametersDecode(inv[p].tool, inv[p].arg)
          /\ inv[p].failure.stage = "decode"
                <=> ~AllParametersDecode(inv[p].tool, inv[p].arg)
          /\ inv[p].failure.stage = "call" => inv[p].calls = 1

\* C19 on a step: an invocation moves along Idle, Decoding, Invoking,
\* Slimming, Done, a failure leading directly to Done, and the remote
\* operation is called in the step that leaves Invoking and in no other.
StepsInOrder(p) ==
    /\ inv'[p].pc # inv[p].pc
          => <<Phase(inv[p].pc), Phase(inv'[p].pc)>> \in PhaseOrder
    /\ inv'[p].calls # inv[p].calls =>
          \/ inv[p].pc = "invoking" /\ inv'[p].pc \in {"slimming", "done"}
                /\ inv'[p].calls = inv[p].calls + 1
          \/ inv[p].pc = "done" /\ inv'[p].pc = "idle"
    /\ (inv[p].pc = "invoking" /\ inv'[p].pc # "invoking")
          => inv'[p].calls = inv[p].calls + 1

DeletedDocument(t, id) ==
    IF t = "clear_calendar"
    THEN Map(<<Pair("success", Bool(TRUE)), Pair("cleared", Str(id))>>)
    ELSE Map(<<Pair("success", Bool(TRUE)), Pair("deleted", Str(id))>>)

\* C20: delete_event, delete_calendar and clear_calendar return
\* {"success": true, "deleted": <id>} ("cleared" for clear_calendar) with
\* the caller's identifier exactly when the remote operation was called and
\* returned; in every other case they return the error envelope and no
\* document with a success key.
C20_DeletedIffRemoteReturned ==
    \A p \in Procs :
        (inv[p].tool \in DeleteTools /\ inv[p].pc = "done") =>
            /\ inv[p].result = DeletedDocument(inv[p].tool, inv[p].arg.id)
                  <=> (inv[p].calls = 1 /\ inv[p].failure.stage # "call")
            /\ inv[p].result # DeletedDocument(inv[p].tool, inv[p].arg.id) =>
                  /\ IsErrorShape(inv[p].result)
                  /\ inv[p].failure # NoFailure
                  /\ "success" \notin KeysOf(inv[p].result)

\* clear_calendar("cal-2") returned {"success": true, "cleared": "cal-2"}
\* after the remote clear of cal-2 returned.
C20_Witness ==
    \E p \in Procs :
        /\ inv[p].tool = "clear_calendar" /\ inv[p].pc = "done"
        /\ inv[p].arg.id = "cal-2" /\ inv[p].calls = 1
        /\ Get(inv[p].sent, "calendar_id") = Str("cal-2")
        /\ inv[p].failure = NoFailure
        /\ inv[p].result = Map(<<Pair("success", Bool(TRUE)),
                                 Pair("cleared", Str("cal-2"))>>)

-----------------------------------------------------------------------------
(* Further properties of _slim_response, checked under SpecSlim *)

\* r is d with entries of mappings removed and nothing else changed: a
\* scalar is itself, a sequence keeps its length and its elements' places,
\* and a mapping keeps a subset of its keys in their relative order, each
\* with the slimmed value of the input.
RECURSIVE Subtracted(_, _)
Subtracted(d, r) ==
    IF d.t = "list"
    THEN /\ r.t = "list" /\ Len(r.v) = Len(d.v)
         /\ \A i \in 1..Len(d.v) : Subtracted(d.v[i], r.v[i])
    ELSE IF d.t = "map"
    THEN /\ r.t = "map" /\ KeysOf(r) \subseteq KeysOf(d)
         /\ LET kept == SelectSeq(d.v, LAMBDA e : e.k \in KeysOf(r))
            IN  /\ Len(kept) = Len(r.v)
                /\ \A i \in 1..Len(kept) :
                      /\ r.v[i].k = kept[i].k
                      /\ r.v[i].v = _slim_response(kept[i].v)
                      /\ Subtracted(kept[i].v, r.v[i].v)
    ELSE r = d

\* C21: slim only removes entries of mappings: the keys of a result mapping
\* are keys of the input in the same relative order, each kept value is slim
\* of the input value, a scalar is returned unchanged, and a sequence keeps
\* its length and the order of its elements.
C21_SubtractiveOrderPreserving == spc # "in" => Subtracted(doc, out)

\* A sequence of a null and an empty string was returned as it is.
C21_Witness ==
    /\ spc = "slimmed" /\ doc = List(<<Null, Str("")>>) /\ out = doc

\* Every field of the mapping m is matched by a rule (none, when m is empty).
AllFieldsMatch(m) == \A i \in 1..Len(m.v) : RuleMatches(m.v[i].k, m.v[i].v)

\* In r, the slimmed d, a mapping all of whose fields are stripped is an
\* empty mapping, at the top level, as an element of a sequence and under
\* its key (a key that is not itself stripped whatever its value).
RECURSIVE EmptiedKept(_, _)
EmptiedKept(d, r) ==
    IF d.t = "list"
    THEN /\ r.t = "list" /\ Len(r.v) = Len(d.v)
         /\ \A i \in 1..Len(d.v) : EmptiedKept(d.v[i], r.v[i])
    ELSE IF d.t = "map"
    THEN /\ AllFieldsMatch(d) => r = Map(<<>>)
         /\ \A i \in 1..Len(d.v) :
               (d.v[i].v.t = "map" /\ d.v[i].k \notin {"etag", "kind", "iCalUID"}
                   /\ AllFieldsMatch(d.v[i].v)) =>
                  /\ r.t = "map" /\ d.v[i].k \in KeysOf(r)
                  /\ Get(r, d.v[i].k) = Map(<<>>)
    ELSE r = d

\* C22: an empty mapping slims to an empty mapping, a nested mapping whose
\* fields are all stripped stays under its key as an empty mapping, and a
\* top-level string, number, boolean or null is returned unchanged.
C22_EmptiedMappingsKept == spc # "in" => EmptiedKept(doc, out)

\* The mapping under id lost its only field and is kept as {}.
C22_Witness ==
    /\ spc = "slimmed"
    /\ doc = Map(<<Pair("id", Map(<<Pair("etag", Str("x"))>>))>>)
    /\ out = Map(<<Pair("id", Map(<<>>))>>)

\* A call of slim on the document d returned, leaving d as it was.
SlimStepPure ==
    /\ (spc = "in" /\ spc' # "in") =>
          /\ spc' = "slimmed" /\ doc' = doc
          /\ out' = _slim_response(doc)
    /\ (spc = "slimmed" /\ spc' # "slimmed") =>
          /\ spc' = "twice" /\ doc' = doc /\ out' = out
          /\ out2' = _slim_response(out)

MalformedTimes == {Str("soon"), Str("2024-13-01T10:00:00")}

\* The messages that include the text x
MessagesIncluding(x) ==
    IF x = Str("soon") THEN {"Invalid isoformat string: 'soon'"}
    ELSE IF x = Str("2024-13-01T10:00:00")
    THEN {"Invalid isoformat string: '2024-13-01T10:00:00'"}
    ELSE {}

\* The first datetime parameter of the invocation that is malformed, when
\* nothing evaluated before it fails; Null when there is none.
FirstMalformedTime(t, a) ==
    IF t \notin TimeTools \/ a.json \in MalformedJson THEN Null
    ELSE IF a.time_min \in MalformedTimes THEN a.time_min
    ELSE IF a.time_min = Null /\ t = "query_freebusy" THEN Null
    ELSE IF a.time_max \in MalformedTimes THEN a.time_max
    ELSE Null

\* C25: an invocation given a malformed datetime text never calls the
\* remote client, and (the client handle being available, and no parameter
\* evaluated earlier failing) it ends in the error envelope whose message
\* includes the malformed text.
C25_MalformedTimeQuoted ==
    \A p \in Procs :
        /\ (inv[p].tool \in TimeTools
            /\ (inv[p].arg.time_min \in MalformedTimes
                \/ inv[p].arg.time_max \in MalformedTimes))
              => (inv[p].calls = 0 /\ inv[p].sent = NotCalled)
        /\ (inv[p].pc = "done" /\ inv[p].failure.stage # "construct"
            /\ FirstMalformedTime(inv[p].tool, inv[p].arg) # Null) =>
              /\ IsErrorShape(inv[p].result)
              /\ Get(inv[p].result, "message").v
                    \in MessagesIncluding(FirstMalformedTime(inv[p].tool, inv[p].arg))

\* C26: the reminders rule is decided on the value as received: a reminders
\* entry (whose value is not null, "" or []) is absent from the result
\* exactly when its value is one of the two one-entry default mappings, and
\* otherwise it is present with its value slimmed, also when slimming leaves
\* only the default entry in it.
C26_RemindersDecidedAsReceived ==
    (spc # "in" /\ doc.t = "map") =>
        \A i \in 1..Len(doc.v) :
            (doc.v[i].k = "reminders" /\ ~EmptyValue(doc.v[i].v)) =>
                IF doc.v[i].v \in DefaultSentinels
                THEN "reminders" \notin KeysOf(out)
                ELSE /\ "reminders" \in KeysOf(out)
                     /\ Get(out, "reminders") = _slim_response(doc.v[i].v)

\* The invocation of p has ended with the failure of the client's construction
ConstructFailed(i) == i.pc = "done" /\ i.failure.stage = "construct"

\* A failed construction by p: the handle is as it was, unset
FailedConstructionStep ==
    \A p \in Procs :
        (inv[p].pc = "construct" /\ ConstructFailed(inv'[p])) =>
            (_client = 0 /\ _client' = 0 /\ constructed' = constructed)

\* An invocation that finds the handle unset goes on to construct a client
ConstructsWhenUnset ==
    \A p \in Procs :
        (inv[p].pc = "get_client" /\ inv'[p] # inv[p] /\ _client = 0) =>
            inv'[p].pc = "construct"

\* C27: an invocation in which the construction of the remote client fails
\* returns the error envelope with the failure's message, holds no client
\* and calls nothing; the handle stays unset (it is never anything but unset
\* or a client whose construction completed), and the invocation after it
\* constructs again.
C27_FailedConstructionLeavesUnset ==
    /\ [](\A p \in Procs :
            ConstructFailed(inv[p]) =>
                /\ inv[p].result = _error_response(inv[p].failure.msg)
                /\ ~inv[p].escaped
                /\ inv[p].client = 0 /\ inv[p].calls = 0
                /\ inv[p].n = invocations => _client = 0)
    /\ [](_client \in 0..constructed)
    /\ [][FailedConstructionStep /\ ConstructsWhenUnset]_vars

\* After a first invocation whose construction failed, the second one is
\* constructing again, the handle being unset.
C27_Witness ==
    \E p \in Procs :
        /\ inv[p].n = 2 /\ inv[p].pc = "construct"
        /\ failures = 1 /\ _client = 0 /\ constructed = 0

\* C28: the shared client is obtained before any parameter is decoded or
\* parsed: an invocation that is normalising its parameters, or has ended
\* in a decode or parse error without calling the remote client, holds the
\* client, and after every invocation in which the construction did not
\* fail the shared handle is set.
C28_ClientObtainedBeforeDecoding ==
    \A p \in Procs :
        /\ (inv[p].pc = "decoding"
            \/ (inv[p].pc = "done" /\ inv[p].failure.stage = "decode"))
              => (inv[p].client # 0 /\ _client = inv[p].client /\ inv[p].calls = 0)
        /\ (inv[p].pc = "done" /\ inv[p].failure.stage # "construct")
              => _client # 0

\* The first invocation has ended in a decode or parse error, having
\* constructed the client that the handle now is.
C28_Witness ==
    \E p \in Procs :
        /\ inv[p].n = 1 /\ inv[p].pc = "done" /\ inv[p].failure.stage = "decode"
        /\ inv[p].calls = 0 /\ inv[p].sent = NotCalled
        /\ _client = 1 /\ builtBy = 1

\* The tests of the loop body with the colorId test (server.py 101-102)
\* taken out
StrippedWithoutColorIdCheck(key, value) ==
    \/ value.t = "null"
    \/ PyEq(value, Str("")) \/ PyEq(value, List(<<>>))
    \/ key \in _ALWAYS_STRIP_KEYS
    \/ key = "iCalUID"
    \/ /\ key = "reminders" /\ value.t = "map"
       /\ \/ PyEq(value, Map(<<Pair("useDefault", Bool(TRUE))>>))
          \/ PyEq(value, Map(<<Pair("use_default", Bool(TRUE))>>))
    \/ key = "sequence" /\ PyEq(value, Num(0))

\* _slim_response with the colorId test taken out
RECURSIVE SlimWithoutColorIdCheck(_)
SlimWithoutColorIdCheck(data) ==
    IF data.t = "list"
    THEN List([i \in 1..Len(data.v) |-> SlimWithoutColorIdCheck(data.v[i])])
    ELSE IF data.t # "map" THEN data
    ELSE LET result[n \in 0..Len(data.v)] ==
                 IF n = 0 THEN <<>>
                 ELSE IF StrippedWithoutColorIdCheck(data.v[n].k, data.v[n].v)
                      THEN result[n - 1]
                 ELSE Append(result[n - 1],
                             Pair(data.v[n].k, SlimWithoutColorIdCheck(data.v[n].v)))
         IN  Map(result[Len(data.v)])

\* Some mapping of d, at any depth, has the key colorId with a value in vs.
RECURSIVE HasColorId(_, _)
HasColorId(d, vs) ==
    IF d.t = "list" THEN \E i \in 1..Len(d.v) : HasColorId(d.v[i], vs)
    ELSE IF d.t = "map"
         THEN \E i \in 1..Len(d.v) :
                 \/ d.v[i].k = "colorId" /\ d.v[i].v \in vs
                 \/ HasColorId(d.v[i].v, vs)
    ELSE FALSE

\* C29: the colorId test is redundant with the null test: the result of
\* slim is the result of slim with the colorId test taken out, for every
\* document.
C29_ColorIdCheckRedundant ==
    /\ spc # "in" => out = SlimWithoutColorIdCheck(doc)
    /\ spc = "twice" => out2 = SlimWithoutColorIdCheck(out)

\* A document with a null colorId next to an entry that is kept has been
\* slimmed: colorId is gone and the other entry is there.
C29_Witness ==
    /\ spc = "slimmed" /\ doc.t = "map"
    /\ HasColorId(doc, {Null}) /\ ~HasColorId(out, {Null})
    /\ out # Map(<<>>)

-----------------------------------------------------------------------------
(* Two invocations compared, checked under SpecPair *)

=============================================================================
